---- MODULE Spec2Model ----
(***************************************************************************)
(* Model of naev's font.c: glyph atlas generation, font lifetime, text     *)
(* layout (width / fit / wrap) and the print entry points.                 *)
(*                                                                         *)
(* A text is the sequence of the bytes of a C string before its            *)
(* terminating NUL; At(text, i) is text[i] with C's 0-based index.         *)
(***************************************************************************)
EXTENDS Integers, Sequences, FiniteSets, TLC

VARIABLES
    fonts,      \* gl_defFont and gl_smallFont: [h, chars, texture, vbo]
    wild,       \* the glFontChar-sized memory a chars[] index outside 0..127 reads
    charSigned, \* whether plain char is signed in this build
    call,       \* the last layout / print call: arguments and results
    textures,   \* GL texture names that currently exist
    vbos,       \* gl_vbo objects that currently exist
    life,       \* per font: "none", "partial", "live" (built), "destroyed"
    lastFree,   \* what the last gl_freeFont released
    atlas,      \* what the last font_genTextureAtlas computed
    needPOT,    \* gl_needPOT(): whether this GL needs power-of-two textures
    run,        \* the gl_printHeightRaw / gl_printTextRaw call in progress
    emit        \* a render batch fed one character at a time

vars == <<fonts, wild, charSigned, call, textures, vbos, life, lastFree, atlas,
          needPOT, run, emit>>

-----------------------------------------------------------------------------
(* Bytes. *)

NUL == 0
TAB == 9
NL  == 10
ESC == 27
SP  == 32

NCHARS == 128

Codes == 0 .. (NCHARS - 1)

\* Letters by their ASCII codes.
Ch(s) ==
    CASE s = "0" -> 48
      [] s = "a" -> 97
      [] s = "b" -> 98
      [] s = "c" -> 99
      [] s = "d" -> 100
      [] s = "e" -> 101
      [] s = "f" -> 102
      [] s = "g" -> 103
      [] s = "r" -> 114

\* text[i]; the byte after the last one is the terminator.
At(text, i) == IF i < Len(text) THEN text[i + 1] ELSE NUL

\* &text[p]
TextFrom(text, p) == SubSeq(text, p + 1, Len(text))

\* (int)text[i]: a char with the top bit set is negative where char is signed.
CharIndex(b) == IF b >= NCHARS /\ charSigned THEN b - 256 ELSE b

\* ft_font->chars[ idx ]: inside the table the stored glyph, outside it
\* whatever memory lies there.
glyphAt(ft_font, idx) ==
    IF idx \in Codes THEN ft_font.chars[idx] ELSE wild

\* if (ft_font == NULL) ft_font = &gl_defFont;
FontOf(ft_font) ==
    IF ft_font = "NULL" THEN fonts["gl_defFont"] ELSE fonts[ft_font]

-----------------------------------------------------------------------------
(* font_limitSize *)

RECURSIVE font_limitSize_loop(_, _, _, _, _, _)
font_limitSize_loop(ft_font, text, max, i, n, idx) ==
    IF At(text, i) = NUL
    THEN [ret |-> i, width |-> n, idx |-> idx]
    ELSE LET k == CharIndex(At(text, i))
             a == glyphAt(ft_font, k).adv_x
         IN  IF n + a > max
             THEN [ret |-> i, width |-> (n + a) - a, idx |-> idx \cup {k}]
             ELSE font_limitSize_loop(ft_font, text, max, i + 1, n + a,
                                      idx \cup {k})

\* The mutants of font_limitSize: one forgets to take the overflowing
\* advance back out of the width, one compares the wrong way round.
RECURSIVE font_limitSize_keep_loop(_, _, _, _, _, _)
font_limitSize_keep_loop(ft_font, text, max, i, n, idx) ==
    IF At(text, i) = NUL
    THEN [ret |-> i, width |-> n, idx |-> idx]
    ELSE LET k == CharIndex(At(text, i))
             a == glyphAt(ft_font, k).adv_x
         IN  IF n + a > max
             THEN [ret |-> i, width |-> n + a, idx |-> idx \cup {k}]
             ELSE font_limitSize_keep_loop(ft_font, text, max, i + 1, n + a,
                                           idx \cup {k})

font_limitSize_keep(ft_font, text, max) ==
    font_limitSize_keep_loop(ft_font, text, max, 0, 0, {})

RECURSIVE font_limitSize_flip_loop(_, _, _, _, _, _)
font_limitSize_flip_loop(ft_font, text, max, i, n, idx) ==
    IF At(text, i) = NUL
    THEN [ret |-> i, width |-> n, idx |-> idx]
    ELSE LET k == CharIndex(At(text, i))
             a == glyphAt(ft_font, k).adv_x
         IN  IF n + a < max
             THEN [ret |-> i, width |-> (n + a) - a, idx |-> idx \cup {k}]
             ELSE font_limitSize_flip_loop(ft_font, text, max, i + 1, n + a,
                                           idx \cup {k})

font_limitSize_flip(ft_font, text, max) ==
    font_limitSize_flip_loop(ft_font, text, max, 0, 0, {})

\* ret: the number of characters that fit; width: what *width receives;
\* idx: the chars[] indexes the loop read.
font_limitSize(ft_font, text, max) ==
    font_limitSize_loop(ft_font, text, max, 0, 0, {})

-----------------------------------------------------------------------------
(* gl_printWidthForText *)

RECURSIVE gl_printWidthForText_loop(_, _, _, _, _, _, _)
gl_printWidthForText_loop(ft_font, text, width, i, n, lastspace, idx) ==
    IF At(text, i) = NL \/ At(text, i) = NUL
    THEN [ret |-> i, over |-> FALSE, idx |-> idx, at |-> i]
    ELSE IF At(text, i) = TAB
    THEN gl_printWidthForText_loop(ft_font, text, width, i + 1, n,
                                   lastspace, idx)
    ELSE IF At(text, i) = ESC
    THEN IF At(text, i + 1) # NUL
         THEN gl_printWidthForText_loop(ft_font, text, width, i + 2, n,
                                        lastspace, idx)
         ELSE gl_printWidthForText_loop(ft_font, text, width, i + 1, n,
                                        lastspace, idx)
    ELSE LET k  == CharIndex(At(text, i))
             n2 == n + glyphAt(ft_font, k).adv_x
             ls == IF At(text, i) = SP THEN i ELSE lastspace
         IN  IF n2 > width
             THEN [ret |-> ls, over |-> TRUE, idx |-> idx \cup {k}, at |-> i]
             ELSE gl_printWidthForText_loop(ft_font, text, width, i + 1, n2,
                                            ls, idx \cup {k})

\* The mutant of gl_printWidthForText: on overflow it returns the scan
\* position instead of the last space.
RECURSIVE gl_printWidthForText_pos_loop(_, _, _, _, _, _, _)
gl_printWidthForText_pos_loop(ft_font, text, width, i, n, lastspace, idx) ==
    IF At(text, i) = NL \/ At(text, i) = NUL
    THEN [ret |-> i, over |-> FALSE, idx |-> idx, at |-> i]
    ELSE IF At(text, i) = TAB
    THEN gl_printWidthForText_pos_loop(ft_font, text, width, i + 1, n,
                                       lastspace, idx)
    ELSE IF At(text, i) = ESC
    THEN IF At(text, i + 1) # NUL
         THEN gl_printWidthForText_pos_loop(ft_font, text, width, i + 2, n,
                                            lastspace, idx)
         ELSE gl_printWidthForText_pos_loop(ft_font, text, width, i + 1, n,
                                            lastspace, idx)
    ELSE LET k  == CharIndex(At(text, i))
             n2 == n + glyphAt(ft_font, k).adv_x
             ls == IF At(text, i) = SP THEN i ELSE lastspace
         IN  IF n2 > width
             THEN [ret |-> i, over |-> TRUE, idx |-> idx \cup {k}, at |-> i]
             ELSE gl_printWidthForText_pos_loop(ft_font, text, width, i + 1,
                                                n2, ls, idx \cup {k})

gl_printWidthForText_pos(ft_font, text, width) ==
    gl_printWidthForText_pos_loop(ft_font, text, width, 0, 0, 0, {})

\* Another: on overflow it returns the index after the overflowing byte.
RECURSIVE gl_printWidthForText_next_loop(_, _, _, _, _, _, _)
gl_printWidthForText_next_loop(ft_font, text, width, i, n, lastspace, idx) ==
    IF At(text, i) = NL \/ At(text, i) = NUL
    THEN [ret |-> i, over |-> FALSE, idx |-> idx, at |-> i]
    ELSE IF At(text, i) = TAB
    THEN gl_printWidthForText_next_loop(ft_font, text, width, i + 1, n,
                                        lastspace, idx)
    ELSE IF At(text, i) = ESC
    THEN IF At(text, i + 1) # NUL
         THEN gl_printWidthForText_next_loop(ft_font, text, width, i + 2, n,
                                             lastspace, idx)
         ELSE gl_printWidthForText_next_loop(ft_font, text, width, i + 1, n,
                                             lastspace, idx)
    ELSE LET k  == CharIndex(At(text, i))
             n2 == n + glyphAt(ft_font, k).adv_x
             ls == IF At(text, i) = SP THEN i ELSE lastspace
         IN  IF n2 > width
             THEN [ret |-> i + 1, over |-> TRUE, idx |-> idx \cup {k},
                   at |-> i]
             ELSE gl_printWidthForText_next_loop(ft_font, text, width, i + 1,
                                                 n2, ls, idx \cup {k})

gl_printWidthForText_next(ft_font, text, width) ==
    gl_printWidthForText_next_loop(ft_font, text, width, 0, 0, 0, {})

\* ret: the returned index; over: whether it left through the
\* "out of bounds" return; idx: the chars[] indexes read; at: the scan
\* position i at the return, the highest index of text that was read.
gl_printWidthForText(ft_font, text, width) ==
    gl_printWidthForText_loop(ft_font, text, width, 0, 0, 0, {})

-----------------------------------------------------------------------------
(* gl_printWidthRaw *)

\* The for loop: `continue` still runs the i++ of the loop header, so the
\* position after an escape marker is (i+2)+1, or (i+1)+1 at the end.
RECURSIVE gl_printWidthRaw_loop(_, _, _, _, _)
gl_printWidthRaw_loop(ft_font, text, i, n, idx) ==
    IF ~(i < Len(text))
    THEN [ret |-> n, idx |-> idx]
    ELSE IF At(text, i) = ESC
    THEN IF At(text, i + 1) # NUL
         THEN gl_printWidthRaw_loop(ft_font, text, (i + 2) + 1, n, idx)
         ELSE gl_printWidthRaw_loop(ft_font, text, (i + 1) + 1, n, idx)
    ELSE LET k == CharIndex(At(text, i))
         IN  gl_printWidthRaw_loop(ft_font, text, i + 1,
                                   n + glyphAt(ft_font, k).adv_x,
                                   idx \cup {k})

gl_printWidthRaw(ft_font, text) ==
    gl_printWidthRaw_loop(ft_font, text, 0, 0, {})

-----------------------------------------------------------------------------
(* The renderer.  A colour is [rgb, a]; positions are kept doubled so that *)
(* the halves of (width - n)/2. and 1.5*h stay exact.                      *)

White == [rgb |-> "white", a |-> "1"]

\* COLOUR(*c), or opaque white for c == NULL
BaseColour(c) == IF c = "NULL" THEN White ELSE [rgb |-> "c", a |-> "c"]

\* gl: the GL state of one batch.  dx2, dy2: twice the offset of the pushed
\* matrix from the caller's (x, y); pen: the translation added since;
\* quads: the characters drawn; idx: the glyph indexes used with the vertex
\* buffer and chars[].
gl_fontRenderStart(font, dx2, dy2, c) ==
    [texture |-> font.texture, vbo |-> font.vbo, dx2 |-> dx2, dy2 |-> dy2,
     colour |-> BaseColour(c), pen |-> <<0, 0>>, quads |-> <<>>, idx |-> {}]

\* The mutant of gl_fontRenderCharacter: the state is looked at before
\* the escape marker, so that a marker after a marker is a directive.
gl_fontRenderCharacter_late(font, ch, c, state, gl) ==
    IF state = 1
    THEN LET a == IF c = "NULL" THEN "1" ELSE "c"
             col == CASE ch = Ch("r") -> [rgb |-> "cRed", a |-> a]
                      [] ch = Ch("g") -> [rgb |-> "cGreen", a |-> a]
                      [] ch = Ch("b") -> [rgb |-> "cBlue", a |-> a]
                      [] ch = Ch("0") -> BaseColour(c)
                      [] OTHER -> gl.colour
         IN  [state |-> 0, gl |-> [gl EXCEPT !.colour = col]]
    ELSE IF ch = ESC
    THEN [state |-> 1, gl |-> gl]
    ELSE LET g == glyphAt(font, ch)
         IN  [state |-> 0,
              gl |-> [gl EXCEPT !.quads = Append(@, ch),
                                !.idx = @ \cup {ch},
                                !.pen = <<@[1] + g.adv_x, @[2] + g.adv_y>>]]

\* Returns the new escape state and the GL state after the call.
gl_fontRenderCharacter(font, ch, c, state, gl) ==
    IF ch = ESC
    THEN [state |-> 1, gl |-> gl]
    ELSE IF state = 1
    THEN LET a == IF c = "NULL" THEN "1" ELSE "c"
             col == CASE ch = Ch("r") -> [rgb |-> "cRed", a |-> a]
                      [] ch = Ch("g") -> [rgb |-> "cGreen", a |-> a]
                      [] ch = Ch("b") -> [rgb |-> "cBlue", a |-> a]
                      [] ch = Ch("0") -> BaseColour(c)
                      [] OTHER -> gl.colour
         IN  [state |-> 0, gl |-> [gl EXCEPT !.colour = col]]
    ELSE LET g == glyphAt(font, ch)
         IN  [state |-> 0,
              gl |-> [gl EXCEPT !.quads = Append(@, ch),
                                !.idx = @ \cup {ch},
                                !.pen = <<@[1] + g.adv_x, @[2] + g.adv_y>>]]

\* for (i=from; i < to; i++) s = gl_fontRenderCharacter( ft_font, text[i], c, s );
RECURSIVE RenderLoop(_, _, _, _, _, _)
RenderLoop(font, text, c, i, to, d) ==
    IF ~(i < to)
    THEN d
    ELSE RenderLoop(font, text, c, i + 1, to,
                    gl_fontRenderCharacter(font, CharIndex(At(text, i)), c,
                                           d.state, d.gl))

\* gl_fontRenderStart, the emit loop over text[0..to), gl_fontRenderEnd.
\* s0 is the value the caller's uninitialised local `s` happens to hold.
RenderBatch(font, text, c, to, dx2, dy2, s0) ==
    RenderLoop(font, text, c, 0, to,
               [state |-> s0, gl |-> gl_fontRenderStart(font, dx2, dy2, c)])

NoBatch ==
    [state |-> 0,
     gl |-> [texture |-> 0, vbo |-> 0, dx2 |-> 0, dy2 |-> 0, colour |-> White,
             pen |-> <<0, 0>>, quads |-> <<>>, idx |-> {}]]

gl_printRaw(ft_font, c, text, s0) ==
    [ret |-> 0, fit |-> Len(text), width |-> 0, idx |-> {},
     draw |-> RenderBatch(ft_font, text, c, Len(text), 0, 0, s0)]

gl_printMaxRaw(ft_font, max, c, text, s0) ==
    LET lim == font_limitSize(ft_font, text, max)
    IN  [ret |-> 0, fit |-> lim.ret, width |-> 0, idx |-> lim.idx,
         draw |-> RenderBatch(ft_font, text, c, lim.ret, 0, 0, s0)]

gl_printMidRaw(ft_font, width, c, text, s0) ==
    LET lim == font_limitSize(ft_font, text, width)
    IN  [ret |-> 0, fit |-> lim.ret, width |-> lim.width, idx |-> lim.idx,
         draw |-> RenderBatch(ft_font, text, c, lim.ret, width - lim.width,
                              0, s0)]

-----------------------------------------------------------------------------
(* gl_printHeightRaw and gl_printTextRaw, one loop iteration at a time.    *)
(* r is the call in progress: its arguments, its locals p, s and y (y2 is  *)
(* twice y for gl_printHeightRaw, twice y - by for gl_printTextRaw), the   *)
(* lines seen so far and `at`, the highest index of text read so far.      *)

\* The mutant of NextPos: one byte more is skipped at a line break.
NextPos_skip(p, i) == p + i + 2

\* p += i + 1;
NextPos(p, i) == p + i + 1

\* The mutant of HeightOf: the half line is not taken off.
HeightOf_full(y2, h) == y2 \div 2

\* (int) (y - 0.5*(double)ft_font->h)
HeightOf(y2, h) == (y2 - h) \div 2

\* The mutant of InBox: the vertical budget is not looked at.
InBox_always(y2) == TRUE

\* y - by > -1e-5, for a y - by that is a multiple of one half
InBox(y2) == y2 >= 0

\* The greater of two text indexes.
Later(a, b) == IF a >= b THEN a ELSE b

NoRun ==
    [fn |-> "none", pc |-> "done", ft_font |-> "NULL", text |-> <<>>,
     width |-> 0, height |-> 0, c |-> "NULL", s |-> 0, p |-> 0, y2 |-> 0,
     lines |-> <<>>, at |-> 0, ret |-> 0, ended |-> "", measured |-> -1]

\* gl_printHeightRaw up to its loop.
gl_printHeightRaw_start(ft_font, width, text) ==
    LET r == [NoRun EXCEPT !.fn = "gl_printHeightRaw", !.ft_font = ft_font,
                           !.text = text, !.width = width]
    IN  IF At(text, 0) = NUL
        THEN [r EXCEPT !.ended = "empty"]
        ELSE [r EXCEPT !.pc = "loop"]

\* One iteration of its do ... while, and the return when the loop ends.
gl_printHeightRaw_step(r) ==
    LET font == FontOf(r.ft_font)
        w  == gl_printWidthForText(font, TextFrom(r.text, r.p), r.width)
        p2 == NextPos(r.p, w.ret)
        y2 == r.y2 + 3 * font.h
        r2 == [r EXCEPT !.p = p2, !.y2 = y2,
                        !.lines = Append(@, [from |-> r.p, ret |-> w.ret,
                                             over |-> w.over, dy2 |-> 0,
                                             draw |-> NoBatch.gl]),
                        !.at = Later(Later(@, r.p + w.at), p2 - 1)]
    IN  IF At(r.text, p2 - 1) # NUL
        THEN r2
        ELSE [r2 EXCEPT !.pc = "done", !.ended = "terminator",
                        !.ret = HeightOf(y2, font.h)]

\* gl_printTextRaw up to its loop.  s0 is what the uninitialised local s
\* holds; measured is the number of lines a gl_printHeightRaw that gave
\* the height counted, or -1.
gl_printTextRaw_start(ft_font, width, height, c, text, s0, measured) ==
    [NoRun EXCEPT !.fn = "gl_printTextRaw", !.pc = "loop",
                  !.ft_font = ft_font, !.text = text, !.width = width,
                  !.height = height, !.c = c, !.s = s0,
                  !.y2 = 2 * (height - FontOf(ft_font).h),
                  !.measured = measured]

\* The test of its while and one iteration.
gl_printTextRaw_step(r) ==
    IF ~InBox(r.y2)
    THEN [r EXCEPT !.pc = "done", !.ended = "budget"]
    ELSE LET font == FontOf(r.ft_font)
             w  == gl_printWidthForText(font, TextFrom(r.text, r.p), r.width)
             d  == RenderLoop(font, r.text, r.c, r.p, r.p + w.ret,
                              [state |-> r.s,
                               gl |-> gl_fontRenderStart(font, 0, r.y2, r.c)])
             r2 == [r EXCEPT !.s = d.state,
                             !.lines = Append(@, [from |-> r.p, ret |-> w.ret,
                                                  over |-> w.over,
                                                  dy2 |-> r.y2,
                                                  draw |-> d.gl]),
                             !.at = Later(Later(@, r.p + w.at), r.p + w.ret)]
         IN  IF At(r.text, r.p + w.ret) = NUL
             THEN [r2 EXCEPT !.pc = "done", !.ended = "terminator"]
             ELSE [r2 EXCEPT !.p = NextPos(r.p, w.ret),
                             !.y2 = r.y2 - 3 * font.h]

\* No render batch open.
NoEmit ==
    [pc |-> "idle", ft_font |-> "NULL", c |-> "NULL", state |-> 0,
     gl |-> NoBatch.gl, n |-> 0,
     last |-> [ch |-> -1, state |-> 0, gl |-> NoBatch.gl]]

-----------------------------------------------------------------------------
(* Atlas generation.  A face gives, per character code, whether             *)
(* FT_Load_Char succeeds and the rendered bitmap's metrics.                *)

\* font_makeChar: c is what the font_char_t slot held before the call (the
\* array is a local that nothing initialises); a failed load returns
\* without writing to it.
font_makeChar(c, face, ch) ==
    LET slot == face[ch]
    IN  IF ~slot.ok
        THEN c
        ELSE [data |-> "bitmap", w |-> slot.w, h |-> slot.h,
              off_x |-> slot.left, off_y |-> slot.top,
              adv_x |-> slot.adv_x, adv_y |-> slot.adv_y]

\* The loops of font_genTextureAtlas run i over 0..127.  Each is written
\* as its body (a step from the loop's variables st at index i to those
\* after it) and the run of the body over lo..hi-1 in order, split in
\* halves, the first half evaluated before the second is begun, so that
\* the evaluation stays shallow.

\* e, once st has been evaluated.
After(st, e) == IF st = st THEN e ELSE e

\* The first loop: total_w and max_h.
atlas_measure_step(chars, st, i) ==
    [total_w |-> st.total_w + chars[i].w,
     max_h |-> IF chars[i].h > st.max_h THEN chars[i].h ELSE st.max_h]

RECURSIVE atlas_measure(_, _, _, _)
atlas_measure(chars, lo, hi, st) ==
    IF hi - lo = 1
    THEN atlas_measure_step(chars, st, lo)
    ELSE LET mid == (lo + hi) \div 2
             half == atlas_measure(chars, lo, mid, st)
         IN  After(half, atlas_measure(chars, mid, hi, half))

\* ceil( sqrt( (double)a / (double)b ) ) for a > 0, b > 0
CeilSqrtRatio(a, b) ==
    CHOOSE n \in 1 .. a : n * n * b >= a /\ (n - 1) * (n - 1) * b < a

\* gl_pot: the smallest power of two that is at least n.
RECURSIVE gl_pot_from(_, _)
gl_pot_from(i, n) == IF i < n THEN gl_pot_from(2 * i, n) ELSE i

gl_pot(n) == gl_pot_from(1, n)

\* The mutant of atlas_testFit_step: the height is left as estimated.
atlas_testFit_step_fixed(chars, pot, w, max_h, st, i) ==
    IF st.x_off + chars[i].w >= w
    THEN [x_off |-> chars[i].w, y_off |-> st.y_off + max_h, h |-> st.h]
    ELSE [x_off |-> st.x_off + chars[i].w, y_off |-> st.y_off, h |-> st.h]

\* "Test fit": the height h grows when a new row does not fit.
atlas_testFit_step(chars, pot, w, max_h, st, i) ==
    IF st.x_off + chars[i].w >= w
    THEN LET y2 == st.y_off + max_h
             h2 == IF y2 + max_h >= st.h
                   THEN (IF pot THEN gl_pot(st.h + max_h) ELSE st.h + max_h)
                   ELSE st.h
         IN  [x_off |-> chars[i].w, y_off |-> y2, h |-> h2]
    ELSE [x_off |-> st.x_off + chars[i].w, y_off |-> st.y_off, h |-> st.h]

RECURSIVE atlas_testFit(_, _, _, _, _, _, _)
atlas_testFit(chars, pot, w, max_h, lo, hi, st) ==
    IF hi - lo = 1
    THEN atlas_testFit_step(chars, pot, w, max_h, st, lo)
    ELSE LET mid == (lo + hi) \div 2
             half == atlas_testFit(chars, pot, w, max_h, lo, mid, st)
         IN  After(half, atlas_testFit(chars, pot, w, max_h, mid, hi, half))

\* "Generate the texture": where each character is written, and whether
\* the "still too small" warning was given.
atlas_place_step(chars, w, h, max_h, st, i) ==
    LET wrap == st.x_off + chars[i].w >= w
        x == IF wrap THEN 0 ELSE st.x_off
        y == IF wrap THEN st.y_off + max_h ELSE st.y_off
    IN  [x_off |-> x + chars[i].w, y_off |-> y,
         rects |-> Append(st.rects, [x |-> x, y |-> y, w |-> chars[i].w,
                                     h |-> chars[i].h]),
         warned |-> st.warned \/ (wrap /\ y + max_h >= h)]

RECURSIVE atlas_place(_, _, _, _, _, _, _)
atlas_place(chars, w, h, max_h, lo, hi, st) ==
    IF hi - lo = 1
    THEN atlas_place_step(chars, w, h, max_h, st, lo)
    ELSE LET mid == (lo + hi) \div 2
             half == atlas_place(chars, w, h, max_h, lo, mid, st)
         IN  After(half, atlas_place(chars, w, h, max_h, mid, hi, half))

\* font_genTextureAtlas: the atlas it lays out and the glyph table it
\* fills (its glGenTextures and gl_vboCreateStatic act on the GL state:
\* see gl_fontInit).  uninit is what the slots of the local chars[] held.
\* The sizes are defined for total_w > 0 and max_h > 0 only (otherwise a
\* division by zero or the conversion of a NaN to int).
font_genTextureAtlas(face, uninit, pot) ==
    LET chars == [i \in Codes |-> font_makeChar(uninit, face, i)]
        m     == atlas_measure(chars, 0, NCHARS,
                               [total_w |-> 0, max_h |-> 0])
        def   == m.total_w > 0 /\ m.max_h > 0
        n     == IF def THEN CeilSqrtRatio(m.total_w, m.max_h) ELSE 0
        w0    == (m.total_w \div n) + 1
        h0    == (m.max_h * n) + 1
        w     == IF pot THEN gl_pot(w0) ELSE w0
        h1    == IF pot THEN gl_pot(h0) ELSE h0
        h     == atlas_testFit(chars, pot, w, m.max_h, 0, NCHARS,
                               [x_off |-> 0, y_off |-> 0, h |-> h1]).h
        p     == atlas_place(chars, w, h, m.max_h, 0, NCHARS,
                             [x_off |-> 0, y_off |-> 0, rects |-> <<>>,
                              warned |-> FALSE])
    IN  After(chars,
          [defined |-> def,
           glyphs |-> chars, total_w |-> m.total_w, max_h |-> m.max_h,
           n |-> n,
           w |-> IF def THEN w ELSE 0,
           h |-> IF def THEN h ELSE 0,
           rects |-> IF def THEN p.rects ELSE <<>>,
           warned |-> IF def THEN p.warned ELSE FALSE,
           fontchars |-> [i \in Codes |-> [adv_x |-> chars[i].adv_x,
                                            adv_y |-> chars[i].adv_y]],
           loaded |-> {i \in Codes : face[i].ok}])

-----------------------------------------------------------------------------
(* Font lifetime. *)

FontIds == {"gl_defFont", "gl_smallFont"}

\* A NULL chars pointer; a NULL vbo pointer and texture name 0 are 0.
NoChars == <<>>

\* The two fonts are globals: zero-initialised.
ZeroFont == [h |-> 0, chars |-> NoChars, texture |-> 0, vbo |-> 0]

NoAtlas == [defined |-> FALSE, glyphs |-> <<>>, total_w |-> 0, max_h |-> 0, n |-> 0, w |-> 0,
            h |-> 0, rects |-> <<>>, warned |-> FALSE, fontchars |-> <<>>,
            loaded |-> {}]

NoFree == [font |-> "none", repeat |-> FALSE, tex |-> {}, chars |-> FALSE,
           vbo |-> FALSE, victims |-> {}]

\* if (font == NULL) font = &gl_defFont;
FontId(font) == IF font = "NULL" THEN "gl_defFont" ELSE font

\* (int)floor((double)h * gl_screen.scale), the scale given in halves
ScaledHeight(h, scale2) == (h * scale2) \div 2

\* The font after gl_fontInit got through font_genTextureAtlas: tex is
\* the name glGenTextures gave, vbo the object gl_vboCreateStatic made.
BuiltFont(a, h, scale2, tex, vbo) ==
    [h |-> ScaledHeight(h, scale2), chars |-> a.fontchars,
     texture |-> tex, vbo |-> vbo]

\* gl_fontInit.  outcome names the first step that fails, or "ok":
\* "read" (ndata_read), "nomem" (malloc of chars), "ftinit"
\* (FT_Init_FreeType), "face" (FT_New_Memory_Face).  a is what
\* font_genTextureAtlas( font, face ) computes for the face opened; tex
\* is the name its glGenTextures gives, vbo the object its
\* gl_vboCreateStatic makes; uninit is what malloc'd memory holds.
gl_fontInit(font, a, h, scale2, outcome, uninit, tex, vbo) ==
    LET id == FontId(font)
        fresh == [i \in Codes |-> [adv_x |-> uninit.adv_x,
                                    adv_y |-> uninit.adv_y]]
    IN  CASE outcome = "read" ->
               UNCHANGED <<fonts, textures, vbos, life, atlas>>
          [] outcome = "nomem" ->
               /\ fonts' = [fonts EXCEPT ![id] =
                      [@ EXCEPT !.chars = NoChars,
                                !.h = ScaledHeight(h, scale2)]]
               /\ life' = [life EXCEPT ![id] = "partial"]
               /\ UNCHANGED <<textures, vbos, atlas>>
          [] outcome \in {"ftinit", "face"} ->
               /\ fonts' = [fonts EXCEPT ![id] =
                      [@ EXCEPT !.chars = fresh,
                                !.h = ScaledHeight(h, scale2)]]
               /\ life' = [life EXCEPT ![id] = "partial"]
               /\ UNCHANGED <<textures, vbos, atlas>>
          [] outcome = "ok" ->
               /\ tex \notin textures
               /\ vbo \notin vbos
               /\ a.defined
               /\ fonts' = [fonts EXCEPT ![id] =
                      BuiltFont(a, h, scale2, tex, vbo)]
               /\ textures' = textures \cup {tex}
               /\ vbos' = vbos \cup {vbo}
               /\ life' = [life EXCEPT ![id] = "live"]
               /\ atlas' = a

\* gl_freeFont.  glDeleteTextures ignores 0 and names that are not
\* textures; it runs whatever the font's state is.
gl_freeFont(font) ==
    LET id == FontId(font)
        f  == fonts[id]
        deleted == {f.texture} \cap textures
    IN  /\ textures' = textures \ deleted
        /\ vbos' = IF f.vbo # 0 THEN vbos \ {f.vbo} ELSE vbos
        /\ fonts' = [fonts EXCEPT ![id] =
               [@ EXCEPT !.chars = NoChars, !.vbo = 0]]
        /\ life' = [life EXCEPT ![id] = "destroyed"]
        /\ lastFree' =
               [font |-> id, repeat |-> life[id] = "destroyed",
                tex |-> deleted, chars |-> f.chars # NoChars,
                vbo |-> f.vbo # 0,
                victims |-> {g \in FontIds \ {id} :
                               life[g] = "live" /\ fonts[g].texture \in deleted}]

-----------------------------------------------------------------------------
(* Inputs. *)

MaxLen == 3
MaxTexName == 2
MaxVbo == 2

\* A face whose characters above the space have a gw x gh bitmap and
\* advance la, whose space advances sa and whose control characters
\* advance ca; FT_Load_Char fails for the codes in bad.
MkFace(gw, gh, la, sa, ca, bad) ==
    [i \in Codes |->
        [ok |-> i \notin bad,
         w |-> IF i > SP THEN gw ELSE 0,
         h |-> IF i > SP THEN gh ELSE 0,
         left |-> 0,
         top |-> IF i > SP THEN gh ELSE 0,
         adv_x |-> IF i = SP THEN sa ELSE IF i < SP THEN ca ELSE la,
         adv_y |-> 0]]

\* What an uninitialised font_char_t may hold.
MkUninit(w, h, adv) ==
    [data |-> "wild", w |-> w, h |-> h, off_x |-> 0, off_y |-> 0,
     adv_x |-> adv, adv_y |-> 0]

Uninits == {MkUninit(0, 0, 0), MkUninit(9, 40, 3), MkUninit(300, 7, 11)}

\* The fonts of the layout runs: letters advance 10 and the space 5 in
\* the default font, 7 and 4 in the small one.
DefFace == MkFace(8, 12, 10, 5, 6, {})
SmallFace == MkFace(6, 9, 7, 4, 0, {})

\* 200 stands for the bytes with the top bit set.
Alphabet == {TAB, NL, ESC, SP, Ch("a"), 200}

Examples ==
    { <<Ch("a"), Ch("b"), Ch("c"), SP, Ch("d"), Ch("e"), Ch("f")>>,
      <<ESC, Ch("r"), Ch("a"), Ch("b")>>,
      <<Ch("a"), Ch("b"), ESC, Ch("r"), Ch("c"), Ch("d")>> }

Texts == UNION {[1 .. n -> Alphabet] : n \in 0 .. MaxLen} \cup Examples

Budgets == {-5, 15, 25, 35}

FontArgs == {"NULL", "gl_smallFont"}

Colours == {"NULL", "c"}

Wilds == {[adv_x |-> -4, adv_y |-> 0], [adv_x |-> 9, adv_y |-> 1]}

NoCall ==
    [fn |-> "none", ft_font |-> "NULL", text |-> <<>>, max |-> 0,
     c |-> "NULL", s0 |-> 0, ret |-> 0, fit |-> 0, width |-> 0,
     over |-> FALSE, idx |-> {}, draw |-> NoBatch]

-----------------------------------------------------------------------------
(* Layout and print calls on two built fonts. *)

Init ==
    /\ needPOT = FALSE
    /\ fonts = [f \in FontIds |->
          IF f = "gl_defFont"
          THEN BuiltFont(font_genTextureAtlas(DefFace, MkUninit(0, 0, 0),
                                              needPOT), 12, 2, 1, 1)
          ELSE BuiltFont(font_genTextureAtlas(SmallFace, MkUninit(0, 0, 0),
                                              needPOT), 9, 2, 2, 2)]
    /\ wild \in Wilds
    /\ charSigned \in BOOLEAN
    /\ call = NoCall
    /\ textures = {1, 2}
    /\ vbos = {1, 2}
    /\ life = [f \in FontIds |-> "live"]
    /\ lastFree = NoFree
    /\ atlas = NoAtlas
    /\ run = NoRun
    /\ emit = NoEmit

Rest == <<fonts, wild, charSigned, textures, vbos, life, lastFree, atlas,
          needPOT, run, emit>>

Call_gl_printWidthRaw ==
    /\ call.fn = "none"
    /\ \E ft \in FontArgs, t \in Texts :
          LET r == gl_printWidthRaw(FontOf(ft), t)
          IN  call' = [NoCall EXCEPT !.fn = "gl_printWidthRaw",
                         !.ft_font = ft, !.text = t, !.ret = r.ret,
                         !.idx = r.idx]
    /\ UNCHANGED Rest

Call_gl_printWidthForText ==
    /\ call.fn = "none"
    /\ \E ft \in FontArgs, t \in Texts, width \in Budgets :
          LET r == gl_printWidthForText(FontOf(ft), t, width)
          IN  call' = [NoCall EXCEPT !.fn = "gl_printWidthForText",
                         !.ft_font = ft, !.text = t, !.max = width,
                         !.ret = r.ret, !.over = r.over, !.idx = r.idx]
    /\ UNCHANGED Rest

Call_gl_printRaw ==
    /\ call.fn = "none"
    /\ \E ft \in FontArgs, t \in Texts, c \in Colours, s0 \in {0, 1} :
          LET r == gl_printRaw(FontOf(ft), c, t, s0)
          IN  call' = [NoCall EXCEPT !.fn = "gl_printRaw",
                         !.ft_font = ft, !.text = t, !.c = c, !.s0 = s0,
                         !.ret = r.ret, !.fit = r.fit, !.width = r.width,
                         !.idx = r.idx, !.draw = r.draw]
    /\ UNCHANGED Rest

Call_gl_printMaxRaw ==
    /\ call.fn = "none"
    /\ \E ft \in FontArgs, t \in Texts, max \in Budgets, c \in Colours,
          s0 \in {0, 1} :
          LET r == gl_printMaxRaw(FontOf(ft), max, c, t, s0)
          IN  call' = [NoCall EXCEPT !.fn = "gl_printMaxRaw",
                         !.ft_font = ft, !.text = t, !.max = max, !.c = c,
                         !.s0 = s0, !.ret = r.ret, !.fit = r.fit,
                         !.width = r.width, !.idx = r.idx, !.draw = r.draw]
    /\ UNCHANGED Rest

Call_gl_printMidRaw ==
    /\ call.fn = "none"
    /\ \E ft \in FontArgs, t \in Texts, width \in Budgets, c \in Colours,
          s0 \in {0, 1} :
          LET r == gl_printMidRaw(FontOf(ft), width, c, t, s0)
          IN  call' = [NoCall EXCEPT !.fn = "gl_printMidRaw",
                         !.ft_font = ft, !.text = t, !.max = width, !.c = c,
                         !.s0 = s0, !.ret = r.ret, !.fit = r.fit,
                         !.width = r.width, !.idx = r.idx, !.draw = r.draw]
    /\ UNCHANGED Rest

\* The call returns; the next one may follow.
Return ==
    /\ call.fn # "none"
    /\ call' = NoCall
    /\ UNCHANGED Rest

Next ==
    \/ Call_gl_printWidthRaw
    \/ Call_gl_printWidthForText
    \/ Call_gl_printRaw
    \/ Call_gl_printMaxRaw
    \/ Call_gl_printMidRaw
    \/ Return

Spec == Init /\ [][Next]_vars

-----------------------------------------------------------------------------
(* Font lifetime: gl_fontInit and gl_freeFont on the two global fonts.     *)

Outcomes == {"read", "nomem", "ftinit", "face", "ok"}

\* gl_vbo objects are interchangeable and no pointer to a destroyed one
\* is kept, so the allocator may as well hand out the least free one.
NewVbo == CHOOSE v \in 1 .. MaxVbo :
             v \notin vbos /\ \A u \in 1 .. (v - 1) : u \in vbos

InitFont ==
    /\ needPOT = FALSE
    /\ fonts = [f \in FontIds |-> ZeroFont]
    /\ wild = [adv_x |-> 0, adv_y |-> 0]
    /\ charSigned = TRUE
    /\ call = NoCall
    /\ textures = {}
    /\ vbos = {}
    /\ life = [f \in FontIds |-> "none"]
    /\ lastFree = NoFree
    /\ atlas = NoAtlas
    /\ run = NoRun
    /\ emit = NoEmit

Call_gl_fontInit ==
    /\ \E face \in {DefFace} :
          LET a == font_genTextureAtlas(face, MkUninit(9, 40, 3), needPOT)
          IN  \E font \in FontArgs, outcome \in Outcomes,
                 tex \in 1 .. MaxTexName :
                 /\ outcome = "ok" => \E v \in 1 .. MaxVbo : v \notin vbos
                 /\ gl_fontInit(font, a, 12, 2, outcome, MkUninit(9, 40, 3),
                                tex, IF outcome = "ok" THEN NewVbo ELSE 0)
    /\ UNCHANGED <<wild, charSigned, call, lastFree, needPOT, run, emit>>

Call_gl_freeFont ==
    /\ \E font \in FontArgs : gl_freeFont(font)
    /\ UNCHANGED <<wild, charSigned, call, atlas, needPOT, run, emit>>

NextFont ==
    \/ Call_gl_fontInit
    \/ Call_gl_freeFont

SpecFont == InitFont /\ [][NextFont]_vars

-----------------------------------------------------------------------------
(* Atlas generation over a range of faces: the first gl_fontInit of the    *)
(* default font.                                                           *)

\* A face like MkFace(gw, gh, ...) but for one character, whose bitmap is
\* ww wide.
WideFace(gw, gh, ch, ww) ==
    [MkFace(gw, gh, 10, 5, 0, {}) EXCEPT ![ch].w = ww]

Faces ==
    {MkFace(gw, gh, 10, 5, 0, bad) :
        gw \in {3, 8, 20}, gh \in {4, 12, 5000},
        bad \in {{}, {ESC}, {Ch("a")}}}
    \cup {WideFace(1, 10, Ch("a"), 100), WideFace(3, 4, Ch("0"), 60)}

InitAtlas ==
    /\ needPOT \in BOOLEAN
    /\ fonts = [f \in FontIds |-> ZeroFont]
    /\ wild = [adv_x |-> 0, adv_y |-> 0]
    /\ charSigned = TRUE
    /\ call = NoCall
    /\ textures = {}
    /\ vbos = {}
    /\ life = [f \in FontIds |-> "none"]
    /\ lastFree = NoFree
    /\ atlas = NoAtlas
    /\ run = NoRun
    /\ emit = NoEmit

Build_gl_defFont ==
    /\ life["gl_defFont"] = "none"
    /\ \E face \in Faces, uninit \in Uninits :
          gl_fontInit("NULL", font_genTextureAtlas(face, uninit, needPOT),
                      12, 2, "ok", uninit, 1, 1)
    /\ UNCHANGED <<wild, charSigned, call, lastFree, needPOT, run, emit>>

NextAtlas == Build_gl_defFont

SpecAtlas == InitAtlas /\ [][NextAtlas]_vars

-----------------------------------------------------------------------------
(* Blocks of text: gl_printHeightRaw and gl_printTextRaw on the two built  *)
(* fonts, and a gl_printTextRaw given the height a gl_printHeightRaw of    *)
(* the same text returned.                                                 *)

MaxBlockLen == 3

BlockAlphabet == {NL, SP, ESC, Ch("a")}

BlockTexts ==
    UNION {[1 .. n -> BlockAlphabet] : n \in 0 .. MaxBlockLen} \cup Examples

Heights == {5, 12, 30}

BlockWidths == {-5, 15, 25}

\* The colour plays no part in the splitting into lines: one will do.
BlockColours == {"c"}

InitBlock ==
    /\ needPOT = FALSE
    /\ fonts = [f \in FontIds |->
          IF f = "gl_defFont"
          THEN BuiltFont(font_genTextureAtlas(DefFace, MkUninit(0, 0, 0),
                                              needPOT), 12, 2, 1, 1)
          ELSE BuiltFont(font_genTextureAtlas(SmallFace, MkUninit(0, 0, 0),
                                              needPOT), 9, 2, 2, 2)]
    /\ wild = [adv_x |-> 0, adv_y |-> 0]
    /\ charSigned = TRUE
    /\ call = NoCall
    /\ textures = {1, 2}
    /\ vbos = {1, 2}
    /\ life = [f \in FontIds |-> "live"]
    /\ lastFree = NoFree
    /\ atlas = NoAtlas
    /\ run = NoRun
    /\ emit = NoEmit

RestBlock == <<fonts, wild, charSigned, call, textures, vbos, life, lastFree,
               atlas, needPOT, emit>>

Call_gl_printHeightRaw ==
    /\ run.fn = "none"
    /\ \E ft \in FontArgs, width \in BlockWidths, t \in BlockTexts :
          run' = gl_printHeightRaw_start(ft, width, t)
    /\ UNCHANGED RestBlock

Loop_gl_printHeightRaw ==
    /\ run.fn = "gl_printHeightRaw"
    /\ run.pc = "loop"
    /\ run' = gl_printHeightRaw_step(run)
    /\ UNCHANGED RestBlock

Call_gl_printTextRaw ==
    /\ run.fn = "none"
    /\ \E ft \in FontArgs, width \in BlockWidths, height \in Heights,
          c \in BlockColours, t \in BlockTexts, s0 \in {0, 1} :
          run' = gl_printTextRaw_start(ft, width, height, c, t, s0, -1)
    /\ UNCHANGED RestBlock

\* The caller measures the text and prints it in a box of that height.
Call_gl_printTextRaw_measured ==
    /\ run.fn = "gl_printHeightRaw"
    /\ run.pc = "done"
    /\ \E c \in BlockColours, s0 \in {0} :
          run' = gl_printTextRaw_start(run.ft_font, run.width, run.ret, c,
                                       run.text, s0, Len(run.lines))
    /\ UNCHANGED RestBlock

Loop_gl_printTextRaw ==
    /\ run.fn = "gl_printTextRaw"
    /\ run.pc = "loop"
    /\ run' = gl_printTextRaw_step(run)
    /\ UNCHANGED RestBlock

NextBlock ==
    \/ Call_gl_printHeightRaw
    \/ Loop_gl_printHeightRaw
    \/ Call_gl_printTextRaw
    \/ Call_gl_printTextRaw_measured
    \/ Loop_gl_printTextRaw

SpecBlock == InitBlock /\ [][NextBlock]_vars

\* Both loops are the body of a function that runs on: nothing else
\* delays an iteration.
SpecBlockFair ==
    /\ SpecBlock
    /\ WF_vars(Loop_gl_printHeightRaw)
    /\ WF_vars(Loop_gl_printTextRaw)

-----------------------------------------------------------------------------
(* One render batch, a character at a time.                                *)

MaxEmit == 3

EmitBytes == {ESC, TAB, Ch("r"), Ch("g"), Ch("b"), Ch("0"), Ch("a")}

RestEmit == <<fonts, wild, charSigned, call, textures, vbos, life, lastFree,
              atlas, needPOT, run>>

\* gl_fontRenderStart; s0 is the value of the caller's local s.
Emit_Start ==
    /\ emit.pc = "idle"
    /\ \E ft \in FontArgs, c \in Colours, s0 \in {0, 1} :
          emit' = [NoEmit EXCEPT !.pc = "open", !.ft_font = ft, !.c = c,
                       !.state = s0,
                       !.gl = gl_fontRenderStart(FontOf(ft), 0, 0, c)]
    /\ UNCHANGED RestEmit

\* s = gl_fontRenderCharacter( ft_font, text[i], c, s );
Emit_Char ==
    /\ emit.pc = "open"
    /\ emit.n < MaxEmit
    /\ \E ch \in EmitBytes :
          LET d == gl_fontRenderCharacter(FontOf(emit.ft_font),
                                          CharIndex(ch), emit.c,
                                          emit.state, emit.gl)
          IN  emit' = [emit EXCEPT !.state = d.state, !.gl = d.gl,
                           !.n = @ + 1,
                           !.last = [ch |-> ch, state |-> emit.state,
                                     gl |-> emit.gl]]
    /\ UNCHANGED RestEmit

\* gl_fontRenderEnd
Emit_End ==
    /\ emit.pc = "open"
    /\ emit' = NoEmit
    /\ UNCHANGED RestEmit

NextEmit ==
    \/ Emit_Start
    \/ Emit_Char
    \/ Emit_End

SpecEmit == InitBlock /\ [][NextEmit]_vars

-----------------------------------------------------------------------------
(* Properties. *)

\* The sum of the advances of text[0 .. k-1], every byte counted.
RECURSIVE AdvSum(_, _, _)
AdvSum(ft_font, text, k) ==
    IF k = 0
    THEN 0
    ELSE AdvSum(ft_font, text, k - 1)
         + glyphAt(ft_font, CharIndex(At(text, k - 1))).adv_x

\* The sum of the advances of the glyph bytes of text[from .. to-1]: an
\* escape marker and the byte after it count nothing.
RECURSIVE GlyphSum(_, _, _, _)
GlyphSum(ft_font, text, from, to) ==
    IF ~(from < to)
    THEN 0
    ELSE IF At(text, from) = ESC
    THEN GlyphSum(ft_font, text, from + 2, to)
    ELSE glyphAt(ft_font, CharIndex(At(text, from))).adv_x
         + GlyphSum(ft_font, text, from + 1, to)

AbcDef == <<Ch("a"), Ch("b"), Ch("c"), SP, Ch("d"), Ch("e"), Ch("f")>>

Fitting == {"gl_printMaxRaw", "gl_printMidRaw"}

\* C1: gl_printWidthRaw of an escape marker, one directive byte and then s
\* is gl_printWidthRaw of s: the escape sequence adds nothing and hides no
\* other byte.
C1_EscapeAddsNothing ==
    (/\ call.fn = "gl_printWidthRaw"
     /\ Len(call.text) >= 2
     /\ call.text[1] = ESC)
    => call.ret = gl_printWidthRaw(FontOf(call.ft_font),
                                   TextFrom(call.text, 2)).ret

\* C2 as stated: when the line holds a space and the width overflows,
\* gl_printWidthForText returns the index of a space; "abc def" in 25
\* pixels, letters advancing 10 and the space 5, gives 3.
C2_BreaksAtASpace ==
    (/\ call.fn = "gl_printWidthForText"
     /\ call.over
     /\ \E j \in 1 .. Len(call.text) :
           /\ call.text[j] = SP
           /\ \A k \in 1 .. j : call.text[k] # NL)
    => /\ At(call.text, call.ret) = SP
       /\ (call.text = AbcDef /\ call.ft_font = "NULL" /\ call.max = 25)
             => call.ret = 3

\* C2 as the code has it: on overflow gl_printWidthForText returns 0 or
\* the index of a space, never another index inside a word; "abc def"
\* gives 0 in 25 pixels (the overflow comes before the space) and 3 in 35.
C2_BreaksAtASpaceOrZero ==
    (call.fn = "gl_printWidthForText" /\ call.over)
    => /\ call.ret = 0 \/ At(call.text, call.ret) = SP
       /\ (call.text = AbcDef /\ call.ft_font = "NULL" /\ call.max = 25)
             => call.ret = 0
       /\ (call.text = AbcDef /\ call.ft_font = "NULL" /\ call.max = 35)
             => call.ret = 3

C2_Overflowed ==
    /\ call.fn = "gl_printWidthForText"
    /\ call.over
    /\ call.text = AbcDef
    /\ call.ft_font = "NULL"
    /\ call.max = 25

\* C3: in font_limitSize an escape marker and its directive byte add
\* nothing: the width gl_printMidRaw gets back is the sum of the advances
\* of the glyph bytes of the prefix that fits, and a text whose glyph
\* bytes fit in the budget is not cut short.
C3_EscapesFitForFree ==
    (/\ call.fn \in Fitting
     /\ \A j \in 1 .. Len(call.text) : call.text[j] \in Codes)
    => LET f == FontOf(call.ft_font)
       IN  /\ call.fn = "gl_printMidRaw"
                => call.width = GlyphSum(f, call.text, 0, call.fit)
           /\ GlyphSum(f, call.text, 0, Len(call.text)) <= call.max
                => call.fit = Len(call.text)

\* C4: gl_printMaxRaw and gl_printMidRaw return the number of characters
\* they did not draw: the length of the text less the number that fit.
C4_ReturnsSuppressed ==
    call.fn \in Fitting => call.ret = Len(call.text) - call.fit

\* C5: a gl_freeFont of a font that is already destroyed releases
\* nothing: no texture, no vertex buffer, no glyph table; so it takes
\* nothing from another, live, font.
C5_RepeatedFreeReleasesNothing ==
    lastFree.repeat
    => /\ lastFree.tex = {}
       /\ ~lastFree.chars
       /\ ~lastFree.vbo
       /\ lastFree.victims = {}

\* C6: no layout or print operation indexes the glyph table or the glyph
\* vertex buffer with an index outside 0..127.
C6_IndexesStayInTable ==
    call.fn # "none" => (call.idx \cup call.draw.gl.idx) \subseteq Codes

\* The size cap on the atlas the specification gives as an example.
AtlasCap == 4096

\* C7: font_genTextureAtlas never makes an atlas taller than the cap: a
\* font whose atlas would be taller gets no texture.
C7_AtlasWithinCap ==
    life["gl_defFont"] = "live" => atlas.h <= AtlasCap

\* C8: a character whose FT_Load_Char fails is a zero-area placeholder:
\* width and height 0, so that total_w and max_h are those of the
\* characters that loaded, and the glyph table still has 128 entries.
C8_FailedGlyphIsEmpty ==
    life["gl_defFont"] = "live"
    => /\ \A i \in Codes \ atlas.loaded :
             atlas.glyphs[i].w = 0 /\ atlas.glyphs[i].h = 0
       /\ DOMAIN fonts["gl_defFont"].chars = Codes

\* C9: font_limitSize is greedy and exact: it returns the first index at
\* which the running sum of the advances exceeds max, or the length of
\* the text; the width it reports is the sum of the advances of exactly
\* the prefix returned, so at most max when max >= 0; the empty text
\* gives 0 and 0.
C9_GreedyAndExact ==
    call.fn \in Fitting
    => LET f == FontOf(call.ft_font)
           t == call.text
       IN  /\ call.fit \in 0 .. Len(t)
           /\ \A j \in 1 .. call.fit : AdvSum(f, t, j) <= call.max
           /\ call.fit < Len(t) => AdvSum(f, t, call.fit + 1) > call.max
           /\ call.fn = "gl_printMidRaw"
                => /\ call.width = AdvSum(f, t, call.fit)
                   /\ call.max >= 0 => call.width <= call.max
                   /\ t = <<>> => call.fit = 0 /\ call.width = 0

C9_Truncated ==
    /\ call.fn = "gl_printMidRaw"
    /\ call.max >= 0
    /\ 0 < call.fit
    /\ call.fit < Len(call.text)
    /\ call.width > 0

\* C10: font_limitSize is monotonic in the budget: a smaller budget never
\* fits more characters of the same text in the same font.
C10_MonotonicInBudget ==
    call.fn \in Fitting
    => \A W1 \in Budgets :
          W1 <= call.max
          => font_limitSize(FontOf(call.ft_font), call.text, W1).ret
                <= call.fit

C10_SmallerBudgetFitsFewer ==
    /\ call.fn \in Fitting
    /\ \E W1 \in Budgets :
          /\ 0 <= W1
          /\ W1 < call.max
          /\ 0 < font_limitSize(FontOf(call.ft_font), call.text, W1).ret
          /\ font_limitSize(FontOf(call.ft_font), call.text, W1).ret
                < call.fit

\* A text with its tab bytes taken out.
NotTab(b) == b # TAB

NoTabs(text) == SelectSeq(text, NotTab)

NoEscape(text) == \A j \in 1 .. Len(text) : text[j] # ESC

\* C11: a tab byte adds nothing to the width gl_printWidthRaw and
\* font_limitSize compute: the result for a text is the result for the
\* text without its tabs.
C11_TabsAddNothing ==
    (NoEscape(call.text) /\ call.text # NoTabs(call.text))
    => LET f == FontOf(call.ft_font)
       IN  /\ call.fn = "gl_printWidthRaw"
                => call.ret = gl_printWidthRaw(f, NoTabs(call.text)).ret
           /\ call.fn = "gl_printMidRaw"
                => call.width
                     = font_limitSize(f, NoTabs(call.text), call.max).width

\* The lines of a call follow one another as gl_printWidthForText splits
\* the text: each starts one byte after the end of the one before, and
\* each ends where gl_printWidthForText of the rest of the text says.
SplitByWrap(r) ==
    LET f == FontOf(r.ft_font)
    IN  \A k \in 1 .. Len(r.lines) :
           /\ r.lines[k].from =
                 IF k = 1 THEN 0
                 ELSE r.lines[k - 1].from + r.lines[k - 1].ret + 1
           /\ r.lines[k].ret =
                 gl_printWidthForText(f, TextFrom(r.text, r.lines[k].from),
                                      r.width).ret

HeightDone == run.fn = "gl_printHeightRaw" /\ run.pc = "done"

\* C12 as stated: gl_printHeightRaw returns 0 for the empty text and, for
\* a text gl_printWidthForText splits into N lines, N times 1.5 times the
\* font's height.
C12_HeightIsLinesTimesOneAndAHalf ==
    HeightDone
    => /\ SplitByWrap(run)
       /\ run.ret = IF run.text = <<>> THEN 0
                    ELSE (3 * Len(run.lines) * FontOf(run.ft_font).h) \div 2

\* C12 as the code has it: 0 for the empty text; for N lines, N times 1.5
\* times the font's height less half the font's height (the last line
\* counts its height only), truncated to an integer.
C12_HeightLessHalfALine ==
    HeightDone
    => /\ SplitByWrap(run)
       /\ run.text # <<>> => At(run.text, run.p - 1) = NUL
       /\ run.ret = IF run.text = <<>> THEN 0
                    ELSE ((3 * Len(run.lines) - 1) * FontOf(run.ft_font).h)
                            \div 2

C12_SeveralLines ==
    /\ HeightDone
    /\ Len(run.lines) >= 2
    /\ run.ret > 0

\* What holds of a gl_printHeightRaw or gl_printTextRaw at every point:
\* while its loop runs the position is at most the terminator's, every
\* iteration began at least one byte after the one before, and no byte
\* after the terminator has been read.
C13_Bounded ==
    run.fn # "none"
    => /\ run.at <= Len(run.text)
       /\ run.pc = "loop" => run.p <= Len(run.text)
       /\ \A k \in 1 .. Len(run.lines) :
             LET next == IF k < Len(run.lines) THEN run.lines[k + 1].from
                         ELSE run.p
             IN  (k < Len(run.lines) \/ run.pc = "loop")
                 => next >= run.lines[k].from + 1

\* C13: gl_printHeightRaw and gl_printTextRaw terminate on every text and
\* width, a word wider than the width included: every iteration moves
\* the position forward by at least one byte, the position does not pass
\* the terminator, no byte after the terminator is read, and a loop that
\* was entered is left.
C13_LoopsTerminate ==
    /\ []C13_Bounded
    /\ (run.pc = "loop") ~> (run.pc = "done")

C13_WideWordDone ==
    /\ run.fn # "none"
    /\ run.pc = "done"
    /\ run.ended = "terminator"
    /\ Len(run.text) >= 2
    /\ \E k \in 1 .. Len(run.lines) :
          run.lines[k].over /\ run.lines[k].ret = 0

\* The sum of the advances of text[from .. to-1], an escape marker with
\* the byte after it and a tab counting nothing.
RECURSIVE LineSum(_, _, _, _)
LineSum(ft_font, text, from, to) ==
    IF ~(from < to)
    THEN 0
    ELSE IF At(text, from) = ESC
    THEN LineSum(ft_font, text, from + 2, to)
    ELSE IF At(text, from) = TAB
    THEN LineSum(ft_font, text, from + 1, to)
    ELSE glyphAt(ft_font, CharIndex(At(text, from))).adv_x
         + LineSum(ft_font, text, from + 1, to)

\* The index of the first newline of the text, or of its terminator.
FirstEnd(text) ==
    CHOOSE i \in 0 .. Len(text) :
       /\ At(text, i) \in {NL, NUL}
       /\ \A j \in 0 .. (i - 1) : At(text, j) \notin {NL, NUL}

\* The same, a newline that is the byte after an escape marker not
\* counting as one.
RECURSIVE LineEnd(_, _)
LineEnd(text, i) ==
    IF At(text, i) \in {NL, NUL}
    THEN i
    ELSE IF At(text, i) = ESC /\ At(text, i + 1) # NUL
    THEN LineEnd(text, i + 2)
    ELSE LineEnd(text, i + 1)

\* C14 as stated: for a width >= 0 the index gl_printWidthForText returns
\* is between 0 and the index of the first newline or terminator, and
\* the characters before it fit in the width, escape sequences and tabs
\* counting nothing.
C14_ReturnedPrefixFits ==
    (call.fn = "gl_printWidthForText" /\ call.max >= 0)
    => /\ 0 <= call.ret
       /\ call.ret <= FirstEnd(call.text)
       /\ LineSum(FontOf(call.ft_font), call.text, 0, call.ret) <= call.max

\* C14 as the code has it: the same, but the index is bounded by the
\* first newline that is not the directive byte of an escape sequence
\* (a newline after an escape marker is skipped with it), or the
\* terminator.
C14_ReturnedPrefixFitsInLine ==
    (call.fn = "gl_printWidthForText" /\ call.max >= 0)
    => /\ 0 <= call.ret
       /\ call.ret <= LineEnd(call.text, 0)
       /\ ~call.over => call.ret = LineEnd(call.text, 0)
       /\ LineSum(FontOf(call.ft_font), call.text, 0, call.ret) <= call.max

C14_BrokeAtLaterSpace ==
    /\ call.fn = "gl_printWidthForText"
    /\ call.max >= 0
    /\ call.over
    /\ call.ret > 0
    /\ call.ret < FirstEnd(call.text)

\* C15: gl_printTextRaw draws no line below the box: every line is at
\* y >= by, the k-th at by + height - h - 1.5 h (k - 1); it draws none
\* when height < h; and it stops as soon as the next line would be below
\* by or the terminator is reached.
C15_LinesStayInBox ==
    run.fn = "gl_printTextRaw"
    => LET h == FontOf(run.ft_font).h
           n == Len(run.lines)
       IN  /\ h > 0
           /\ \A k \in 1 .. n :
                 /\ run.lines[k].dy2 >= 0
                 /\ run.lines[k].dy2 = 2 * (run.height - h) - 3 * h * (k - 1)
                 /\ k < n => At(run.text, run.lines[k].from
                                            + run.lines[k].ret) # NUL
           /\ run.height < h => n = 0
           /\ run.pc = "done"
                => \/ /\ run.ended = "budget"
                      /\ 2 * (run.height - h) - 3 * h * n < 0
                   \/ /\ run.ended = "terminator"
                      /\ n > 0
                      /\ At(run.text, run.lines[n].from
                                        + run.lines[n].ret) = NUL

C15_StoppedByBudget ==
    /\ run.fn = "gl_printTextRaw"
    /\ run.pc = "done"
    /\ run.ended = "budget"
    /\ Len(run.lines) >= 2

\* The colour after the directive ch, given the caller's colour c and
\* the colour before.
DirectiveColour(ch, c, before) ==
    LET alpha == IF c = "NULL" THEN "1" ELSE "c"
    IN  IF ch = Ch("r") THEN [rgb |-> "cRed", a |-> alpha]
        ELSE IF ch = Ch("g") THEN [rgb |-> "cGreen", a |-> alpha]
        ELSE IF ch = Ch("b") THEN [rgb |-> "cBlue", a |-> alpha]
        ELSE IF ch = Ch("0")
        THEN (IF c = "NULL" THEN [rgb |-> "white", a |-> "1"]
              ELSE [rgb |-> "c", a |-> "c"])
        ELSE before

\* C16: gl_fontRenderCharacter is the two-mode machine: an escape marker
\* draws nothing, moves nothing and sets the mode to 1 (awaiting a
\* directive); any other byte met in mode 1 is a directive: nothing is
\* drawn or moved, only the colour may change (r, g, b, 0), and the mode
\* is 0 again; every other byte draws one quad, moves the pen by the
\* glyph's advance and leaves the mode 0.
C16_TwoModeMachine ==
    (emit.pc = "open" /\ emit.last.ch # -1)
    => LET ch == emit.last.ch
           g0 == emit.last.gl
           g  == emit.gl
           adv == FontOf(emit.ft_font).chars[ch]
       IN  /\ g.texture = g0.texture /\ g.vbo = g0.vbo
           /\ g.dx2 = g0.dx2 /\ g.dy2 = g0.dy2
           /\ IF ch = ESC
              THEN emit.state = 1 /\ g = g0
              ELSE IF emit.last.state = 1
              THEN /\ emit.state = 0
                   /\ g.quads = g0.quads
                   /\ g.pen = g0.pen
                   /\ g.colour = DirectiveColour(ch, emit.c, g0.colour)
              ELSE /\ emit.state = 0
                   /\ g.quads = Append(g0.quads, ch)
                   /\ g.pen = <<g0.pen[1] + adv.adv_x, g0.pen[2] + adv.adv_y>>
                   /\ g.colour = g0.colour

C16_ColouredAfterGlyph ==
    /\ emit.pc = "open"
    /\ emit.last.ch = Ch("r")
    /\ emit.last.state = 1
    /\ emit.state = 0
    /\ emit.gl.colour.rgb = "cRed"
    /\ Len(emit.gl.quads) = 1
    /\ emit.gl.pen[1] > 0

\* C17: the test-fit pass leaves a height with which every row of the
\* placement pass fits: for every glyph placed, y_off + max_h < h, with
\* or without power-of-two rounding, and "Font is still too small" is
\* never reached.
C17_RowsFit ==
    life["gl_defFont"] = "live"
    => /\ ~atlas.warned
       /\ Len(atlas.rects) = NCHARS
       /\ \A i \in 1 .. Len(atlas.rects) :
             atlas.rects[i].y + atlas.max_h < atlas.h

\* The height had to grow: the rows need more than the estimate
\* max_h * n + 1.
C17_HeightGrew ==
    /\ life["gl_defFont"] = "live"
    /\ ~needPOT
    /\ atlas.h > atlas.max_h * atlas.n + 1

\* C18: every glyph's rectangle lies inside the atlas, and the
\* rectangles of two glyphs with a non-zero area share no pixel.
C18_RectsInsideAndApart ==
    life["gl_defFont"] = "live"
    => LET R == atlas.rects
           area(i) == R[i].w > 0 /\ R[i].h > 0
       IN  /\ \A i \in 1 .. Len(R) :
                 /\ 0 <= R[i].x /\ R[i].x + R[i].w <= atlas.w
                 /\ 0 <= R[i].y /\ R[i].y + R[i].h <= atlas.h
           /\ \A i, j \in 1 .. Len(R) :
                 (i < j /\ area(i) /\ area(j))
                 => \/ R[i].x + R[i].w <= R[j].x
                    \/ R[j].x + R[j].w <= R[i].x
                    \/ R[i].y + R[i].h <= R[j].y
                    \/ R[j].y + R[j].h <= R[i].y

\* C19: a print operation starts its emit loop in mode 0: the first byte
\* of the text, when it is drawn at all and is no escape marker, is
\* drawn as a glyph.
C19_FirstByteIsDrawn ==
    (/\ call.fn \in {"gl_printRaw", "gl_printMaxRaw", "gl_printMidRaw"}
     /\ call.fit >= 1
     /\ call.text[1] # ESC)
    => /\ call.draw.gl.quads # <<>>
       /\ call.draw.gl.quads[1] = CharIndex(call.text[1])

\* C20: a gl_printTextRaw given the height gl_printHeightRaw returned
\* for the same font, width and non-empty text renders as many lines as
\* gl_printHeightRaw counted and ends at the terminator.
C20_MeasuredHeightSuffices ==
    (/\ run.fn = "gl_printTextRaw"
     /\ run.pc = "done"
     /\ run.measured >= 1)
    => /\ Len(run.lines) = run.measured
       /\ run.ended = "terminator"

\* C21: a gl_printTextRaw that ends at the terminator passes every byte
\* of the text to gl_fontRenderCharacter but the one byte at each line
\* break, and that byte is a space or a newline; the lines are those
\* gl_printWidthForText gives, as gl_printHeightRaw counts them.
C21_OnlySeparatorsSkipped ==
    (/\ run.fn = "gl_printTextRaw"
     /\ run.pc = "done"
     /\ run.ended = "terminator")
    => /\ SplitByWrap(run)
       /\ \A k \in 1 .. (Len(run.lines) - 1) :
             At(run.text, run.lines[k].from + run.lines[k].ret) \in {SP, NL}

====
